---------------------------- MODULE Spec2Model ----------------------------
(***************************************************************************)
(* pdb::pe -- the decoder of a PE IMAGE_SECTION_HEADER (src/src/pe.rs).    *)
(*                                                                         *)
(* ImageSectionHeader::parse reads one 40-byte record from a ParseBuffer   *)
(* by ten sub-reads issued in the order of the struct literal, each        *)
(* followed by `?`; ImageSectionHeader::name trims the 8-byte name field   *)
(* at its first NUL.  The ParseBuffer itself (take, parse_u16, parse_u32)  *)
(* and RawString live in `common`, outside pe.rs; they are modelled from   *)
(* the cursor interface the specification states.                          *)
(*                                                                         *)
(* A byte is a number in 0..255.  TLC's integers are 32-bit signed, so a   *)
(* u32 is kept as two 16-bit limbs [hi, lo] standing for hi * 2^16 + lo;   *)
(* a u16 is a plain number.                                                *)
(***************************************************************************)
EXTENDS Integers, Sequences, FiniteSets, TLC

VARIABLES
    bytes,      \* the byte slice the ParseBuffer borrows (`bytes`, pe.rs:92)
    pos,        \* the ParseBuffer's read position, 0-based
    cursor,     \* how many ParseBuffers have been made over `bytes` so far
    pc,         \* "idle", or the sub-read parse is about to issue, or "Ok"
    start,      \* pos on entry to the running (or last) call of parse
    partial,    \* the values the running call has read so far, by field
    log,        \* the calls of parse completed on this ParseBuffer, in order
    prevLog,    \* the log of the ParseBuffer before this one
    view        \* what the caller last got from name(), and for which header

vars == <<bytes, pos, cursor, pc, start, partial, log, prevLog, view>>

-----------------------------------------------------------------------------
(* Bounds of the model. *)

\* Longest byte slice handed to a ParseBuffer: two records and one byte more.
MaxBufLen == 81

\* How many ParseBuffers are made, one after the other, over the same slice.
MaxCursors == 2

-----------------------------------------------------------------------------
(* Bytes and integers. *)

Byte == 0..255

\* A u32 built from its four bytes, least significant first.
U32FromLeBytes(b0, b1, b2, b3) ==
    [hi |-> b3 * 256 + b2, lo |-> b1 * 256 + b0]

\* A u16 built from its two bytes, least significant first.
U16FromLeBytes(b0, b1) ==
    b1 * 256 + b0

-----------------------------------------------------------------------------
(* common::ParseBuffer: a slice and a position.  Every primitive returns   *)
(* the Result and the position the buffer is left at; a failing primitive  *)
(* leaves the position where it was.                                       *)

ShortBuffer == "short_buffer"

\* ParseBuffer::len: the bytes remaining.
Remaining(buf, p) == Len(buf) - p

\* ParseBuffer::take(n)
take(buf, p, n) ==
    IF Remaining(buf, p) < n
    THEN [ok |-> FALSE, error |-> ShortBuffer, pos |-> p]
    ELSE [ok |-> TRUE, value |-> SubSeq(buf, p + 1, p + n), pos |-> p + n]

\* ParseBuffer::parse_u16
parse_u16(buf, p) ==
    IF Remaining(buf, p) < 2
    THEN [ok |-> FALSE, error |-> ShortBuffer, pos |-> p]
    ELSE [ok |-> TRUE, value |-> U16FromLeBytes(buf[p + 1], buf[p + 2]),
          pos |-> p + 2]

\* ParseBuffer::parse_u32
parse_u32(buf, p) ==
    IF Remaining(buf, p) < 4
    THEN [ok |-> FALSE, error |-> ShortBuffer, pos |-> p]
    ELSE [ok |-> TRUE,
          value |-> U32FromLeBytes(buf[p + 1], buf[p + 2], buf[p + 3], buf[p + 4]),
          pos |-> p + 4]

\* RawString::from(&[u8]): the borrowed bytes, as they are.
RawStringFrom(bs) == bs

-----------------------------------------------------------------------------
(* ImageSectionHeader::parse, pe.rs:59-77. *)

\* The order with the two u16 initialisers exchanged.
SubReads_swapped ==
    << "name",
       "physical_address",
       "virtual_address",
       "size_of_raw_data",
       "pointer_to_raw_data",
       "pointer_to_relocations",
       "pointer_to_line_numbers",
       "number_of_line_numbers",
       "number_of_relocations",
       "characteristics" >>

\* The sub-reads in the order the function body issues them: the take of
\* line 60, then the field initialisers of the struct literal, lines 67-75.
SubReads ==
    << "name",
       "physical_address",
       "virtual_address",
       "size_of_raw_data",
       "pointer_to_raw_data",
       "pointer_to_relocations",
       "pointer_to_line_numbers",
       "number_of_relocations",
       "number_of_line_numbers",
       "characteristics" >>

\* number_of_relocations read with parse_u32.
SubRead_wide(f, buf, p) ==
    IF f = "name" THEN take(buf, p, 8)
    ELSE IF f = "number_of_line_numbers" THEN parse_u16(buf, p)
    ELSE parse_u32(buf, p)

\* characteristics read with parse_u16.
SubRead_narrow(f, buf, p) ==
    IF f = "name" THEN take(buf, p, 8)
    ELSE IF f \in {"number_of_relocations", "number_of_line_numbers",
                   "characteristics"} THEN parse_u16(buf, p)
    ELSE parse_u32(buf, p)

\* A name field that starts with NUL rejected as malformed.
SubRead_checked(f, buf, p) ==
    IF f = "name"
    THEN LET r == take(buf, p, 8)
         IN  IF r.ok /\ r.value[1] = 0
             THEN [ok |-> FALSE, error |-> "invalid_name", pos |-> r.pos]
             ELSE r
    ELSE IF f \in {"number_of_relocations", "number_of_line_numbers"}
         THEN parse_u16(buf, p)
    ELSE parse_u32(buf, p)

\* characteristics masked by state outside the buffer: every ParseBuffer
\* after the first gets the low limb only.
SubRead_stateful(f, buf, p) ==
    IF f = "name" THEN take(buf, p, 8)
    ELSE IF f \in {"number_of_relocations", "number_of_line_numbers"}
         THEN parse_u16(buf, p)
    ELSE IF f = "characteristics" /\ cursor > 1 /\ parse_u32(buf, p).ok
         THEN [parse_u32(buf, p) EXCEPT !.value.hi = 0]
    ELSE parse_u32(buf, p)

\* The primitive each sub-read calls on the ParseBuffer.
SubRead(f, buf, p) ==
    CASE f = "name"                    -> take(buf, p, 8)
      [] f = "physical_address"        -> parse_u32(buf, p)
      [] f = "virtual_address"         -> parse_u32(buf, p)
      [] f = "size_of_raw_data"        -> parse_u32(buf, p)
      [] f = "pointer_to_raw_data"     -> parse_u32(buf, p)
      [] f = "pointer_to_relocations"  -> parse_u32(buf, p)
      [] f = "pointer_to_line_numbers" -> parse_u32(buf, p)
      [] f = "number_of_relocations"   -> parse_u16(buf, p)
      [] f = "number_of_line_numbers"  -> parse_u16(buf, p)
      [] f = "characteristics"         -> parse_u32(buf, p)

\* Where control goes after sub-read f succeeded: the next initialiser, or
\* the construction of the Ok value once the last one is evaluated.
After(f) ==
    LET i == CHOOSE k \in 1..Len(SubReads) : SubReads[k] = f
    IN  IF i = Len(SubReads) THEN "Ok" ELSE SubReads[i + 1]

\* The struct literal with the last name index repeating the one before.
ImageSectionHeader_name(v) ==
    [ name |-> << v["name"][1], v["name"][2], v["name"][3], v["name"][4],
                  v["name"][5], v["name"][6], v["name"][7], v["name"][7] >>,
      physical_address        |-> v["physical_address"],
      virtual_address         |-> v["virtual_address"],
      size_of_raw_data        |-> v["size_of_raw_data"],
      pointer_to_raw_data     |-> v["pointer_to_raw_data"],
      pointer_to_relocations  |-> v["pointer_to_relocations"],
      pointer_to_line_numbers |-> v["pointer_to_line_numbers"],
      number_of_relocations   |-> v["number_of_relocations"],
      number_of_line_numbers  |-> v["number_of_line_numbers"],
      characteristics         |-> v["characteristics"] ]

\* The struct literal with the values of size_of_raw_data and
\* pointer_to_raw_data exchanged.
ImageSectionHeader_swapped(v) ==
    [ name |-> << v["name"][1], v["name"][2], v["name"][3], v["name"][4],
                  v["name"][5], v["name"][6], v["name"][7], v["name"][8] >>,
      physical_address        |-> v["physical_address"],
      virtual_address         |-> v["virtual_address"],
      size_of_raw_data        |-> v["pointer_to_raw_data"],
      pointer_to_raw_data     |-> v["size_of_raw_data"],
      pointer_to_relocations  |-> v["pointer_to_relocations"],
      pointer_to_line_numbers |-> v["pointer_to_line_numbers"],
      number_of_relocations   |-> v["number_of_relocations"],
      number_of_line_numbers  |-> v["number_of_line_numbers"],
      characteristics         |-> v["characteristics"] ]

\* The struct literal of lines 62-76 over the values read.
ImageSectionHeader(v) ==
    [ name |-> << v["name"][1], v["name"][2], v["name"][3], v["name"][4],
                  v["name"][5], v["name"][6], v["name"][7], v["name"][8] >>,
      physical_address        |-> v["physical_address"],
      virtual_address         |-> v["virtual_address"],
      size_of_raw_data        |-> v["size_of_raw_data"],
      pointer_to_raw_data     |-> v["pointer_to_raw_data"],
      pointer_to_relocations  |-> v["pointer_to_relocations"],
      pointer_to_line_numbers |-> v["pointer_to_line_numbers"],
      number_of_relocations   |-> v["number_of_relocations"],
      number_of_line_numbers  |-> v["number_of_line_numbers"],
      characteristics         |-> v["characteristics"] ]

\* No value read yet.
NoValues == [f \in {} |-> 0]

\* A completed call, as the caller sees it: the Result, and the positions
\* of the ParseBuffer before and after.  `blame` is the sub-read whose `?`
\* returned early.
OkCall(h, s, e)     == [kind |-> "Ok", header |-> h, from |-> s, to |-> e]
ErrCall(err, f, s, e) == [kind |-> "Err", error |-> err, blame |-> f,
                          from |-> s, to |-> e]

-----------------------------------------------------------------------------
(* ImageSectionHeader::name, pe.rs:79-83. *)

\* self.name.iter().position(|ch| *ch == 0): the index (0-based) of the
\* first NUL, or None (here -1).
None == -1

\* rposition in place of position: the index of the last NUL.
first_nul_last(nm) ==
    IF \E i \in 1..Len(nm) : nm[i] = 0
    THEN (CHOOSE i \in 1..Len(nm) :
              nm[i] = 0 /\ \A j \in (i + 1)..Len(nm) : nm[j] # 0) - 1
    ELSE None

first_nul(nm) ==
    IF \E i \in 1..Len(nm) : nm[i] = 0
    THEN (CHOOSE i \in 1..Len(nm) :
              nm[i] = 0 /\ \A j \in 1..(i - 1) : nm[j] # 0) - 1
    ELSE None

\* unwrap_or_default in place of unwrap_or: 0 when there is no NUL.
unwrap_or_default(o, d) == IF o = None THEN 0 ELSE o

\* first_nul.unwrap_or(self.name.len())
unwrap_or(o, d) == IF o = None THEN d ELSE o

\* name(): the slice [0..first_nul) of the name field, as a RawString.
name(h) ==
    LET name_bytes == SubSeq(h.name, 1, unwrap_or(first_nul(h.name), Len(h.name)))
    IN  RawStringFrom(name_bytes)

-----------------------------------------------------------------------------
(* The byte slices parse is run on. *)

\* The 40 bytes of tests::image_section_header, pe.rs:92-98.
TestBytes ==
    << \h2E, \h64, \h61, \h74, \h61, \h00, \h00, \h00,
       \h48, \h35, \h09, \h00, \h00, \hD0, \h1E, \h00,
       \h00, \hFE, \h00, \h00, \h00, \hA2, \h1E, \h00,
       \h00, \h00, \h00, \h00, \h00, \h00, \h00, \h00,
       \h00, \h00, \h00, \h00, \h40, \h00, \h00, \hC8 >>

\* Byte i (from 1) of four endless fills: the test's record over and over,
\* all 0x00, all 0xFF, and a ramp in which neighbouring bytes differ.
Fills == {"test", "zero", "ones", "ramp"}
FillByte(fill, i) ==
    CASE fill = "test" -> TestBytes[((i - 1) % Len(TestBytes)) + 1]
      [] fill = "zero" -> 0
      [] fill = "ones" -> 255
      [] fill = "ramp" -> (i * 7 + 3) % 256

\* Slices of every length up to MaxBufLen, cut from a fill.
SlicesOfEveryLength ==
    { [i \in 1..n |-> FillByte(fill, i)] : n \in 0..MaxBufLen, fill \in Fills }

\* The test's record with one byte replaced.
PokeValues == {0, 1, 127, 128, 255}
PokedRecords ==
    { [TestBytes EXCEPT ![p] = b] : p \in 1..Len(TestBytes), b \in PokeValues }

\* The test's record under every name field over NUL, '/' and 'A'.
NameBytes == {0, 47, 65}
NamedRecords ==
    { nm \o SubSeq(TestBytes, 9, Len(TestBytes)) : nm \in [1..8 -> NameBytes] }

\* "/1234" padded with NULs, the long-name form, and "ABCDEFGH".
LongName == <<47, 49, 50, 51, 52, 0, 0, 0>>
FullName == <<65, 66, 67, 68, 69, 70, 71, 72>>
SpecialRecords ==
    { nm \o SubSeq(TestBytes, 9, Len(TestBytes)) : nm \in {LongName, FullName} }

InputSlices ==
    SlicesOfEveryLength \cup PokedRecords \cup NamedRecords \cup SpecialRecords

-----------------------------------------------------------------------------
(* The state machine. *)

NoView == [taken |-> FALSE]

\* let bytes = vec![...]; let mut parse_buffer = ParseBuffer::from(bytes.as_slice());
Init ==
    /\ bytes \in InputSlices
    /\ pos = 0
    /\ cursor = 1
    /\ pc = "idle"
    /\ start = 0
    /\ partial = NoValues
    /\ log = << >>
    /\ prevLog = << >>
    /\ view = NoView

\* The caller makes another ParseBuffer over the same slice, at position 0.
ParseBufferFrom ==
    /\ pc = "idle"
    /\ cursor < MaxCursors
    /\ cursor' = cursor + 1
    /\ pos' = 0
    /\ start' = 0
    /\ prevLog' = log
    /\ log' = << >>
    /\ UNCHANGED <<bytes, pc, partial, view>>

\* The caller calls ImageSectionHeader::parse(&mut parse_buffer).  A caller
\* stops using a ParseBuffer on which parse has failed.
parse ==
    /\ pc = "idle"
    /\ IF log = << >> THEN TRUE ELSE log[Len(log)].kind = "Ok"
    /\ pc' = SubReads[1]
    /\ start' = pos
    /\ partial' = NoValues
    /\ UNCHANGED <<bytes, pos, cursor, log, prevLog, view>>

\* One sub-read and its `?`: on Ok the value is kept and control goes on to
\* the next initialiser; on Err parse returns the error at once.
Read(f) ==
    /\ pc = f
    /\ LET r == SubRead(f, bytes, pos)
       IN  /\ pos' = r.pos
           /\ IF r.ok
              THEN /\ partial' = (f :> r.value) @@ partial
                   /\ pc' = After(f)
                   /\ log' = log
              ELSE /\ partial' = NoValues
                   /\ pc' = "idle"
                   /\ log' = Append(log, ErrCall(r.error, f, start, r.pos))
    /\ UNCHANGED <<bytes, cursor, start, prevLog, view>>

take_name               == Read("name")
physical_address        == Read("physical_address")
virtual_address         == Read("virtual_address")
size_of_raw_data        == Read("size_of_raw_data")
pointer_to_raw_data     == Read("pointer_to_raw_data")
pointer_to_relocations  == Read("pointer_to_relocations")
pointer_to_line_numbers == Read("pointer_to_line_numbers")
number_of_relocations   == Read("number_of_relocations")
number_of_line_numbers  == Read("number_of_line_numbers")
characteristics         == Read("characteristics")

\* Ok(ImageSectionHeader{ ... }): every initialiser is evaluated.
ReturnOk ==
    /\ pc = "Ok"
    /\ log' = Append(log, OkCall(ImageSectionHeader(partial), start, pos))
    /\ pc' = "idle"
    /\ partial' = NoValues
    /\ UNCHANGED <<bytes, pos, cursor, start, prevLog, view>>

\* The caller calls name() on a header parse returned from this ParseBuffer.
CallName ==
    /\ pc = "idle"
    /\ \E i \in 1..Len(log) :
          /\ log[i].kind = "Ok"
          /\ view' = [taken |-> TRUE, cursor |-> cursor, call |-> i,
                       header |-> log[i].header, raw |-> name(log[i].header)]
    /\ UNCHANGED <<bytes, pos, cursor, pc, start, partial, log, prevLog>>

Next ==
    \/ ParseBufferFrom
    \/ parse
    \/ take_name
    \/ physical_address
    \/ virtual_address
    \/ size_of_raw_data
    \/ pointer_to_raw_data
    \/ pointer_to_relocations
    \/ pointer_to_line_numbers
    \/ number_of_relocations
    \/ number_of_line_numbers
    \/ characteristics
    \/ ReturnOk
    \/ CallName

Spec == Init /\ [][Next]_vars

-----------------------------------------------------------------------------
(* What the claims are stated in: the layout of the record, written down   *)
(* from the wire format, independently of the sub-reads above.             *)

\* The encoded footprint: 8 for name, six u32, two u16, one u32.
EncodedLen == 8 + 6 * 4 + 2 * 2 + 4

\* The ten fields in wire order.
FieldOrder ==
    << "name", "physical_address", "virtual_address", "size_of_raw_data",
       "pointer_to_raw_data", "pointer_to_relocations",
       "pointer_to_line_numbers", "number_of_relocations",
       "number_of_line_numbers", "characteristics" >>

\* The byte offset at which each of the ten fields ends, in wire order.
EndOffsets == <<8, 12, 16, 20, 24, 28, 32, 34, 36, 40>>
StartOffset(k) == IF k = 1 THEN 0 ELSE EndOffsets[k - 1]

\* Byte i (0 the least significant) of a u32 kept as two 16-bit limbs.
ByteOfU32(v, i) ==
    LET limb == IF i < 2 THEN v.lo ELSE v.hi
    IN  IF i % 2 = 0 THEN limb % 256 ELSE limb \div 256

\* v is the u32 whose little-endian encoding is b[off .. off+4) (0-based).
IsLeU32At(v, b, off) ==
    /\ v.lo \in 0..65535
    /\ v.hi \in 0..65535
    /\ \A i \in 0..3 : ByteOfU32(v, i) = b[off + i + 1]

\* v is the u16 whose little-endian encoding is b[off .. off+2) (0-based).
IsLeU16At(v, b, off) ==
    /\ v \in 0..65535
    /\ v % 256 = b[off + 1]
    /\ v \div 256 = b[off + 2]

\* h is the header the wire format assigns to b[s .. s+40).
IsHeaderAt(h, b, s) ==
    /\ h.name = SubSeq(b, s + 1, s + 8)
    /\ IsLeU32At(h.physical_address, b, s + 8)
    /\ IsLeU32At(h.virtual_address, b, s + 12)
    /\ IsLeU32At(h.size_of_raw_data, b, s + 16)
    /\ IsLeU32At(h.pointer_to_raw_data, b, s + 20)
    /\ IsLeU32At(h.pointer_to_relocations, b, s + 24)
    /\ IsLeU32At(h.pointer_to_line_numbers, b, s + 28)
    /\ IsLeU16At(h.number_of_relocations, b, s + 32)
    /\ IsLeU16At(h.number_of_line_numbers, b, s + 34)
    /\ IsLeU32At(h.characteristics, b, s + 36)

Calls == 1..Len(log)
BytesLeftAt(p) == Len(bytes) - p

\* C1 (field independence): every header parse returns holds the name bytes
\* verbatim and, in each integer field, the little-endian number at that
\* field's fixed offset (8, 12, 16, 20, 24, 28 as u32; 32, 34 as u16; 36 as
\* u32) from where the cursor stood when parse was called.
C1_FieldIndependence ==
    \A i \in Calls :
        log[i].kind = "Ok" => IsHeaderAt(log[i].header, bytes, log[i].from)

\* A header was returned for a record whose neighbouring bytes all differ.
C1_Witness ==
    /\ Len(log) >= 1
    /\ log[1].kind = "Ok"
    /\ bytes[9] = 66 /\ bytes[10] = 73 /\ bytes[11] = 80 /\ bytes[12] = 87
    /\ log[1].header.physical_address = [hi |-> 87 * 256 + 80, lo |-> 73 * 256 + 66]

\* C2 (exact consumption): a successful parse leaves the cursor exactly 40
\* bytes beyond where it started.
C2_ExactConsumption ==
    /\ \A i \in Calls : log[i].kind = "Ok" => log[i].to = log[i].from + EncodedLen
    /\ pc = "Ok" => pos = start + EncodedLen

\* A 40-byte input was parsed successfully.
C2_Witness ==
    /\ Len(bytes) = 40
    /\ Len(log) = 1
    /\ log[1].kind = "Ok"
    /\ pos = 40

\* C3 (short buffer): a call made with fewer than 40 bytes remaining returns
\* the short-buffer error and never a header.
C3_ShortBuffer ==
    /\ \A i \in Calls :
           BytesLeftAt(log[i].from) < EncodedLen
               => log[i].kind = "Err" /\ log[i].error = ShortBuffer
    /\ pc = "Ok" => BytesLeftAt(start) >= EncodedLen

\* A 39-byte input was rejected.
C3_Witness ==
    /\ Len(bytes) = 39
    /\ Len(log) = 1
    /\ log[1].kind = "Err"
    /\ log[1].from = 0

\* The index of the first NUL of an 8-byte name field, or 8: the least
\* element of the NUL indices with 8 added.
TrimLen(nm) ==
    LET S == {i - 1 : i \in {j \in 1..8 : nm[j] = 0}} \cup {8}
    IN  CHOOSE m \in S : \A x \in S : m <= x

\* C4 (name trimming): name() returns the prefix of the name field up to its
\* first NUL (all 8 bytes when there is none): 0 to 8 bytes, none of them
\* NUL; empty when the field starts with NUL, the whole field when it has no
\* NUL, and "/1234" for "/1234" padded with NULs.
C4_NameTrimming ==
    view.taken =>
        LET nm == view.header.name
            r  == view.raw
        IN  /\ Len(r) = TrimLen(nm)
            /\ r = SubSeq(nm, 1, Len(r))
            /\ Len(r) \in 0..8
            /\ \A j \in 1..Len(r) : r[j] # 0
            /\ nm[1] = 0 => r = << >>
            /\ (\A j \in 1..8 : nm[j] # 0) => r = nm
            /\ nm = LongName => r = <<47, 49, 50, 51, 52>>

\* name() was called on a header named "/1234".
C4_Witness ==
    /\ view.taken
    /\ view.header.name = LongName
    /\ view.raw = <<47, 49, 50, 51, 52>>

\* C5 (no validation errors): parse fails exactly when fewer than 40 bytes
\* remain at the call, whatever the bytes are, the error is short-buffer,
\* and the sub-read that failed had asked for more than was left.
C5_NoValidationErrors ==
    \A i \in Calls :
        /\ log[i].kind = "Err" <=> BytesLeftAt(log[i].from) < EncodedLen
        /\ log[i].kind = "Err" =>
               /\ log[i].error = ShortBuffer
               /\ \E k \in 1..Len(EndOffsets) :
                      /\ FieldOrder[k] = log[i].blame
                      /\ BytesLeftAt(log[i].to) < EndOffsets[k] - StartOffset(k)

\* Forty bytes of 0xFF decoded to a header.
C5_Witness ==
    /\ Len(bytes) = 40
    /\ \A j \in 1..40 : bytes[j] = 255
    /\ Len(log) >= 1
    /\ log[1].kind = "Ok"
    /\ log[1].header.characteristics = [hi |-> 65535, lo |-> 65535]

\* The header tests::image_section_header expects (pe.rs:103-113).
TestHeader ==
    [ name                    |-> <<46, 100, 97, 116, 97, 0, 0, 0>>,
      physical_address        |-> [hi |-> \h0009, lo |-> \h3548],
      virtual_address         |-> [hi |-> \h001E, lo |-> \hD000],
      size_of_raw_data        |-> [hi |-> \h0000, lo |-> \hFE00],
      pointer_to_raw_data     |-> [hi |-> \h001E, lo |-> \hA200],
      pointer_to_relocations  |-> [hi |-> 0, lo |-> 0],
      pointer_to_line_numbers |-> [hi |-> 0, lo |-> 0],
      number_of_relocations   |-> 0,
      number_of_line_numbers  |-> 0,
      characteristics         |-> [hi |-> \hC800, lo |-> \h0040] ]

\* C6 (reference scenario): parsing the test's 40 bytes succeeds with the
\* header the test expects, and name() of that header is ".data".
C6_ReferenceScenario ==
    /\ (bytes = TestBytes /\ Len(log) >= 1) => log[1] = OkCall(TestHeader, 0, 40)
    /\ (view.taken /\ view.header = TestHeader) => view.raw = <<46, 100, 97, 116, 97>>

\* The test's bytes were parsed and name() called on the result.
C6_Witness ==
    /\ bytes = TestBytes
    /\ Len(log) >= 1
    /\ log[1].kind = "Ok"
    /\ view.taken
    /\ view.header = log[1].header

FirstFieldBeyond(L) ==
    CHOOSE k \in 1..Len(EndOffsets) :
        EndOffsets[k] > L /\ \A j \in 1..(k - 1) : EndOffsets[j] <= L

\* C8 (failure blame follows field order): the sub-reads are issued in wire
\* order, each at its field's start offset with exactly the earlier fields
\* read; a call with L < 40 bytes left fails at the first field whose end
\* offset exceeds L and leaves the cursor at that field's start offset.
C8_FailureBlame ==
    /\ \A k \in 1..Len(EndOffsets) :
           pc = FieldOrder[k] =>
               /\ pos = start + StartOffset(k)
               /\ DOMAIN partial = {FieldOrder[j] : j \in 1..(k - 1)}
    /\ \A i \in Calls :
           log[i].kind = "Err" =>
               LET k == FirstFieldBeyond(BytesLeftAt(log[i].from))
               IN  /\ log[i].blame = FieldOrder[k]
                   /\ log[i].to = log[i].from + StartOffset(k)
    /\ \A i \in Calls :
           (log[i].kind = "Err" /\ BytesLeftAt(log[i].from) = 39)
               => log[i].blame = "characteristics"
    /\ \A i \in Calls :
           (log[i].kind = "Err" /\ BytesLeftAt(log[i].from) = 0)
               => log[i].blame = "name"

\* A call with 33 bytes left failed on number_of_relocations, 32 bytes in.
C8_Witness ==
    /\ Len(log) >= 1
    /\ log[Len(log)].kind = "Err"
    /\ BytesLeftAt(log[Len(log)].from) = 33
    /\ log[Len(log)].blame = "number_of_relocations"
    /\ log[Len(log)].to = log[Len(log)].from + 32

\* C9 (back-to-back parsing): on a slice of n bytes the i-th call (from 0)
\* starts at 40*i; the first n \div 40 calls succeed, each with the header
\* of bytes [40*i, 40*i+40) and the cursor left at 40*i+40, and the call
\* after them fails with short-buffer.
C9_BackToBack ==
    /\ Len(log) <= (Len(bytes) \div EncodedLen) + 1
    /\ \A i \in Calls :
           /\ log[i].from = EncodedLen * (i - 1)
           /\ log[i].kind = "Ok" <=> i <= Len(bytes) \div EncodedLen
           /\ log[i].kind = "Ok" =>
                  /\ IsHeaderAt(log[i].header, bytes, EncodedLen * (i - 1))
                  /\ log[i].to = EncodedLen * i
           /\ log[i].kind = "Err" => log[i].error = ShortBuffer

\* An 81-byte slice gave two different headers and then the error.
C9_Witness ==
    /\ Len(bytes) = 81
    /\ Len(log) = 3
    /\ log[1].kind = "Ok"
    /\ log[2].kind = "Ok"
    /\ log[1].header # log[2].header
    /\ log[3].kind = "Err"

\* bs right-padded with NULs to 8 bytes.
PadTo8(bs) == bs \o [i \in 1..(8 - Len(bs)) |-> 0]

\* Some non-NUL byte of nm follows a NUL.
NonZeroAfterNul(nm) ==
    \E i \in 1..8 : \E j \in (i + 1)..8 : nm[i] = 0 /\ nm[j] # 0

\* C10 (name round-trip): padding name() with NULs to 8 bytes gives back the
\* name field exactly when no non-NUL byte follows the field's first NUL;
\* for [0, 'A', 0, 0, 0, 0, 0, 0] name() is empty; and the header the call
\* was made on still holds its 8 name bytes as parsed.
C10_NameRoundTrip ==
    view.taken =>
        LET nm == view.header.name
        IN  /\ PadTo8(view.raw) = nm <=> ~NonZeroAfterNul(nm)
            /\ nm = <<0, 65, 0, 0, 0, 0, 0, 0>> => view.raw = << >>
            /\ Len(nm) = 8
            /\ view.cursor = cursor =>
                   /\ log[view.call].header = view.header
                   /\ nm = SubSeq(bytes, log[view.call].from + 1,
                                  log[view.call].from + 8)

\* name() was called on a header whose name is [0, 'A', 0, 0, 0, 0, 0, 0].
C10_Witness ==
    /\ view.taken
    /\ view.cursor = cursor
    /\ view.header.name = <<0, 65, 0, 0, 0, 0, 0, 0>>
    /\ view.raw = << >>
    /\ PadTo8(view.raw) # view.header.name

=============================================================================
